---- MODULE Spec2Model ----
(***************************************************************************)
(* Model of the gravitational unbinding routines bound_particlesBH and     *)
(* bound_particlesAPROX (src/src/galex/class_methods/bound_particles.py).  *)
(*                                                                         *)
(* Numbers.  The routines compute in IEEE double precision on numpy/unyt   *)
(* arrays.  The model computes exactly over the rationals, extended with   *)
(* the three IEEE specials that numpy produces on a division by zero: a    *)
(* value is a pair <<n, d>>, in lowest terms with d > 0 when finite, and   *)
(* <<1,0>> = +inf, <<-1,0>> = -inf, <<0,0>> = NaN.  Units are chosen so    *)
(* that the gravitational constant has magnitude one.                      *)
(***************************************************************************)
EXTENDS Integers, Sequences, FiniteSets, TLC

----------------------------------------------------------------------------
(* Extended rational arithmetic (numpy float64 semantics, exact).          *)

Abs(a) == IF a < 0 THEN -a ELSE a

Sign(a) == IF a < 0 THEN -1 ELSE IF a > 0 THEN 1 ELSE 0

RECURSIVE Gcd(_, _)
Gcd(a, b) == IF b = 0 THEN a ELSE Gcd(b, a % b)

\* n/d in normal form; a zero denominator gives +inf, -inf or NaN
Norm(n, d) ==
    IF d = 0 THEN <<Sign(n), 0>>
    ELSE LET g == Gcd(Abs(n), Abs(d))
         IN  <<Sign(d) * (n \div g), Abs(d) \div g>>

Zero == <<0, 1>>
NaN == <<0, 0>>
PosInf == <<1, 0>>
NegInf == <<-1, 0>>

R(k) == <<k, 1>>

IsNaN(a) == a = NaN
IsFinite(a) == a[2] # 0

RNeg(a) == <<-a[1], a[2]>>

RAdd(a, b) ==
    IF IsFinite(a) /\ IsFinite(b)
    THEN LET g == Gcd(a[2], b[2])
         IN  Norm(a[1] * (b[2] \div g) + b[1] * (a[2] \div g), a[2] * (b[2] \div g))
    ELSE IF IsNaN(a) \/ IsNaN(b) THEN NaN
    ELSE IF IsFinite(a) THEN b
    ELSE IF IsFinite(b) THEN a
    ELSE IF a = b THEN a ELSE NaN

RSub(a, b) == RAdd(a, RNeg(b))

RMul(a, b) ==
    LET g1 == Gcd(Abs(a[1]), b[2])
        g2 == Gcd(Abs(b[1]), a[2])
    IN  IF IsFinite(a) /\ IsFinite(b)
        THEN Norm((a[1] \div g1) * (b[1] \div g2), (a[2] \div g2) * (b[2] \div g1))
        ELSE <<Sign(a[1]) * Sign(b[1]), 0>>

\* x / 0 is +-inf and 0 / 0 is NaN (numpy warns and carries on)
RInv(a) == IF IsNaN(a) THEN NaN ELSE Norm(a[2], a[1])

RDiv(a, b) == RMul(a, RInv(b))

\* a < b for finite a, b, by their integer parts and then the reciprocals of
\* the fractional parts (no cross product, which could leave 32 bits)
RECURSIVE FinLt(_, _)
FinLt(a, b) ==
    LET fa == a[1] \div a[2]
        fb == b[1] \div b[2]
        ra == a[1] - fa * a[2]
        rb == b[1] - fb * b[2]
    IN  IF fa # fb THEN fa < fb
        ELSE IF rb = 0 THEN FALSE
        ELSE IF ra = 0 THEN TRUE
        ELSE FinLt(<<b[2], rb>>, <<a[2], ra>>)

\* a < b; every comparison with NaN is false
RLt(a, b) ==
    IF IsNaN(a) \/ IsNaN(b) THEN FALSE
    ELSE IF IsFinite(a) /\ IsFinite(b) THEN FinLt(a, b)
    ELSE IF a = b THEN FALSE
    ELSE IF a = NegInf \/ b = PosInf THEN TRUE
    ELSE FALSE

RECURSIVE ISqrtFrom(_, _)
ISqrtFrom(n, r) == IF (r + 1) * (r + 1) > n THEN r ELSE ISqrtFrom(n, r + 1)

\* np.sqrt on a value whose root is rational (all the model's separations)
RSqrt(a) ==
    IF ~IsFinite(a) THEN (IF a = NegInf THEN NaN ELSE a)
    ELSE IF a[1] < 0 THEN NaN
    ELSE <<ISqrtFrom(a[1], 0), ISqrtFrom(a[2], 0)>>

HasExactRoot(a) ==
    /\ IsFinite(a)
    /\ a[1] >= 0
    /\ ISqrtFrom(a[1], 0) * ISqrtFrom(a[1], 0) = a[1]
    /\ ISqrtFrom(a[2], 0) * ISqrtFrom(a[2], 0) = a[2]

----------------------------------------------------------------------------
(* 3-vectors and numpy helpers.                                            *)

Vec(x, y, z) == <<R(x), R(y), R(z)>>

VSub(a, b) == <<RSub(a[1], b[1]), RSub(a[2], b[2]), RSub(a[3], b[3])>>

\* (a[0]-b[0])**2 + (a[1]-b[1])**2 + (a[2]-b[2])**2
SqDist(a, b) ==
    LET d == VSub(a, b)
    IN  RAdd(RAdd(RMul(d[1], d[1]), RMul(d[2], d[2])), RMul(d[3], d[3]))

ZeroVec == Vec(0, 0, 0)

RECURSIVE SumUpTo(_, _, _)
SumUpTo(f, S, k) ==
    IF k = 0 THEN Zero
    ELSE RAdd(SumUpTo(f, S, k - 1), IF k \in S THEN f[k] ELSE Zero)

\* sum of f over the indices in S
SumOver(f, S) == SumUpTo(f, S, Len(f))

Indices(f) == 1 .. Len(f)

\* what a call gives when numpy raises ZeroDivisionError
ZeroDivisionError == <<"ZeroDivisionError">>

\* avg = np.multiply(a, wgt).sum(axis) / scl, with scl = wgt.sum(axis); numpy
\* raises ZeroDivisionError when scl is zero
Normalized(a, w, mask, scl) ==
    IF scl = Zero THEN ZeroDivisionError
    ELSE [c \in 1 .. 3 |->
             RDiv(SumOver([k \in Indices(a) |-> RMul(a[k][c], w[k])], mask), scl)]

\* np.average(a[mask], axis=0, weights=w[mask]); an empty selection has
\* weights that sum to zero
Average(a, w, mask) == Normalized(a, w, mask, SumOver(w, mask))

\* np.rint: round to the nearest integer, ties to the even one
Rint(a) ==
    LET f == a[1] \div a[2]
        r == a[1] - f * a[2]
    IN  IF 2 * r < a[2] THEN f
        ELSE IF 2 * r > a[2] THEN f + 1
        ELSE IF f % 2 = 0 THEN f ELSE f + 1

RMin(a, b) == IF RLt(b, a) THEN b ELSE a

----------------------------------------------------------------------------
(* Program constants.                                                      *)

\* for i in range(100)
MaxIter == 100

\* cap of the most-bound core
MaxCore == 32

\* the model's units make |G| = 1; bound_particlesAPROX negates G
GAprox == -1

\* 0.1 and 0.5 as written in the source
CoreFraction == <<1, 10>>
Half == <<1, 2>>

None == "None"
Unset == "unset"

\* what a call has given so far: nothing yet, the tuple (E, kin, pot), the
\* None of a function body that ends without a return, or an exception
Running == [kind |-> "running"]
Returned(e, k, p) == [kind |-> "return", E |-> e, kin |-> k, pot |-> p]
ReturnedNone == [kind |-> "return None"]
Raised(exc) == [kind |-> "raise", exc |-> exc]

----------------------------------------------------------------------------
(* The energy evaluation and the most-bound core, as operators.            *)

\* kin = 0.5 * mass * abs_vel**2, abs_vel = sqrt(sum((vel - vcm)**2)); the
\* square of the root is the sum itself
\* (mutant: the velocities are not taken relative to vcm)
KineticNoFrame(m, v, vc) == [k \in Indices(m) |-> RMul(RMul(Half, m[k]), SqDist(v[k], ZeroVec))]

Kinetic(m, v, vc) == [k \in Indices(m) |-> RMul(RMul(Half, m[k]), SqDist(v[k], vc))]

\* pot = mass * unyt_array(pot, vel.units**2)   (bound_particlesBH)
PotentialBH(m, p) == [k \in Indices(m) |-> RMul(m[k], p[k])]

\* radii = sqrt(sum((pos - cm)**2))
Radii(x, c) == [k \in Indices(x) |-> RSqrt(SqDist(x[k], c))]

\* pot = G * mass * mass.sum() / radii
PointMass(m, mtot, radii) ==
    [k \in Indices(m) |-> RDiv(RMul(RMul(R(GAprox), m[k]), mtot), radii[k])]

\* the potential of bound_particlesAPROX: all the mass as a point at cm
PotentialAPROX(m, x, c) == PointMass(m, SumOver(m, Indices(m)), Radii(x, c))

\* E = kin + pot
TotalEnergy(k, p) == [j \in Indices(k) |-> RAdd(k[j], p[j])]

\* bound_mask = E < 0
BoundMask(e) == {k \in Indices(e) : RLt(e[k], Zero)}

\* (mutant: ties are rounded up instead of to the even integer)
FloorHalfUp(a) == (2 * a[1] + a[2]) \div (2 * a[2])
CoreSizeHalfUp(count) == FloorHalfUp(RMin(RMul(CoreFraction, R(count)), R(MaxCore)))

\* N = int(np.rint(np.minimum(0.1 * np.count_nonzero(bound_mask), 32)))
CoreSize(count) == Rint(RMin(RMul(CoreFraction, R(count)), R(MaxCore)))

RECURSIVE KSubsets(_, _)
KSubsets(S, k) ==
    IF k = 0 THEN {{}}
    ELSE IF Cardinality(S) < k THEN {}
    ELSE LET x == CHOOSE y \in S : TRUE
         IN  {T \cup {x} : T \in KSubsets(S \ {x}, k - 1)} \cup KSubsets(S \ {x}, k)

\* argsort puts NaN last
Before(e, a, b) == RLt(e[a], e[b]) \/ (IsNaN(e[b]) /\ ~IsNaN(e[a]))

\* most_bound_ids = np.argsort(E)[:N], as a mask.  The default argsort is not
\* stable: among equal energies any order is a possible outcome, so every
\* choice of the tied particles at the cut is a possible mask.
MostBoundMasks(e, n) ==
    LET I == Indices(e)
        ahead(k) == Cardinality({j \in I : Before(e, j, k)})
        notBehind(k) == Cardinality({j \in I \ {k} : ~Before(e, k, j)})
        sure == {k \in I : notBehind(k) < n}
        tied == {k \in I : ahead(k) < n} \ sure
    IN  {sure \cup T : T \in KSubsets(tied, n - Cardinality(sure))}

\* Two masks that differ only by exchanging particles with the same position,
\* velocity and mass give the same averages: of those the one with the lowest
\* indices is kept.
Lowest(mask, x, v, m) ==
    \A a \in mask : \A b \in 1 .. (a - 1) :
        (x[b] = x[a] /\ v[b] = v[a] /\ m[b] = m[a]) => b \in mask

\* sqrt(sum((new - old)**2)) / np.linalg.norm(old) < delta.  For
\* non-negative x and delta, x < delta iff x**2 < delta**2; a zero norm makes
\* the quotient inf or NaN, and the comparison false.
RelativeBelow(new, old, d) ==
    RLt(RDiv(SqDist(new, old), SqDist(old, ZeroVec)), RMul(d, d))

----------------------------------------------------------------------------
(* Inputs.  An ensemble is a sequence of particles.  Two families:         *)
(*  - ensembles on the x axis, built from up to MaxCopies copies of each   *)
(*    kind of Kinds (so every separation from a centre on the axis is      *)
(*    rational);                                                           *)
(*  - the four-particle cross at (+-1,0,0), (0,+-1,0), equal masses, all   *)
(*    at rest but one "hot" particle.                                      *)
(* phi is what pytreegrav's Potential returns for the ensemble (an         *)
(* external solver: its answer is an input of the model).                  *)

MaxHalo == 13
MaxHeavy == 2

\* a halo particle, a heavy fast one, and a cold one at rest at the origin
Kinds ==
    << [pos |-> Vec(1, 0, 0),  vel |-> Vec(1, 0, 0),  mass |-> R(1), phi |-> R(-3), max |-> MaxHalo],
       [pos |-> Vec(-1, 0, 0), vel |-> Vec(0, 3, 0),  mass |-> R(2), phi |-> R(-2), max |-> MaxHeavy],
       [pos |-> Vec(0, 0, 0),  vel |-> Vec(0, 0, 0),  mass |-> R(1), phi |-> R(-4), max |-> 1] >>

Particle(kind) == [f \in {"pos", "vel", "mass", "phi"} |-> kind[f]]

RECURSIVE Copies(_, _)
Copies(p, k) == IF k = 0 THEN <<>> ELSE <<p>> \o Copies(p, k - 1)

RECURSIVE Build(_, _)
Build(c, k) == IF k = 0 THEN <<>> ELSE Build(c, k - 1) \o Copies(Particle(Kinds[k]), c[k])

AxisEnsembles ==
    {Build(c, Len(Kinds)) :
        c \in {d \in [1 .. Len(Kinds) -> 0 .. MaxHalo] :
                  \A k \in 1 .. Len(Kinds) : d[k] <= Kinds[k].max}} \ {<<>>}

CrossPos == <<Vec(1, 0, 0), Vec(-1, 0, 0), Vec(0, 1, 0), Vec(0, -1, 0)>>

CrossSpeeds == {2, 4}

CrossEnsembles ==
    {[k \in 1 .. 4 |-> [pos |-> CrossPos[k],
                        vel |-> IF k = hot THEN Vec(s, 0, 0) ELSE ZeroVec,
                        mass |-> R(1), phi |-> R(-2)]] :
        hot \in 1 .. 4, s \in CrossSpeeds}

Ensembles == AxisEnsembles \cup CrossEnsembles

Field(ens, f) == [k \in 1 .. Len(ens) |-> ens[k][f]]

CmArgs == {None, Vec(1, 0, 0)}
VcmArgs == {None, ZeroVec}
DeltaVals == {<<1, 100>>, <<1, 1>>}

\* the model's square roots are exact: a supplied centre lies at a rational
\* distance from every particle
RationalFrom(x, c) == \A k \in Indices(x) : HasExactRoot(SqDist(x[k], c))

----------------------------------------------------------------------------
\* what is remembered of a finished call
Outcome(arg, res) == [cm_arg |-> arg, result |-> res]
NoCall == Outcome(None, Running)

VARIABLES
    routine,          \* "BH" or "APROX": which routine was called
    pos, vel, mass,   \* the caller's arrays
    phi,              \* Potential(pos, mass, ...) of pytreegrav
    cm_arg, vcm_arg,  \* the cm and vcm arguments (None when not supplied)
    refine, delta,    \* the refine and delta arguments
    pc,               \* position in the routine
    i,                \* the loop variable of `for i in range(100)`
    cm, vcm,          \* current candidates
    pot, kin, E,      \* locals of the energy evaluation
    N, most_bound_mask,
    new_cm, new_vcm,
    result,           \* what the call has given so far
    evals,            \* number of energy evaluations made (history)
    calls,            \* 1 in the first call, 2 in a call that follows it
    first             \* the first call's cm argument and outcome (history)

inputs == <<routine, pos, vel, mass, phi, cm_arg, vcm_arg, refine, delta>>
locals == <<i, cm, vcm, pot, kin, E, N, most_bound_mask, new_cm, new_vcm>>
earlier == <<calls, first>>
unbinding == <<inputs, pc, locals, result, evals, earlier>>

\* BaseParticleType (src/dextractor/base.py)
VARIABLES
    shared_attrs,     \* the class attribute: particle type -> key -> value
    classcall         \* the last class-method call and what it gave (history)

sharing == <<shared_attrs, classcall>>

\* the dictionary literal of the class body
SharedAttrsAtImport ==
    [pt \in {"darkmatter", "stars"} |->
        IF pt = "darkmatter"
        THEN [key \in {"rockstar_center", "rockstar_vel", "rvir", "rs", "c"} |-> None]
        ELSE [key \in {"ML"} |-> None]]

NoKwargs == [key \in {} |-> None]
Gave(kind, val) == [kind |-> kind, val |-> val]
ClassCall(op, pt, key, value, kwargs, gave) ==
    [op |-> op, pt |-> pt, key |-> key, value |-> value, kwargs |-> kwargs, gave |-> gave]
NoClassCall == ClassCall("none", None, None, None, NoKwargs, Gave("none", None))

InitShared ==
    /\ shared_attrs = SharedAttrsAtImport
    /\ classcall = NoClassCall

\* BaseSimulationObject (src/dextractor/base.py)
VARIABLES
    parent,           \* object -> its _parent (None or an object)
    units,            \* object -> its units
    los, basis,       \* object -> its line of sight and coordinate basis
    objcall           \* the last method call and what it gave (history)

simulation == <<parent, units, los, basis, objcall>>

Objects == {"a", "b", "c"}

\* config.working_units: the configured unit system, None when not configured
WorkingUnits == {None, "working"}

\* self.los = [1, 0, 0]; self.basis = np.identity(3)
DefaultLos == <<1, 0, 0>>
Identity == [by |-> "identity", of |-> DefaultLos]

\* gram_schmidt(los): the basis built from the line of sight
GramSchmidt(l) == [by |-> "gram_schmidt", of |-> l]

NoLos == <<>>
ObjCall(op, self, p, u, l, gave) ==
    [op |-> op, self |-> self, parent |-> p, units |-> u, los |-> l, gave |-> gave]
NoObjCall == ObjCall("none", None, None, None, NoLos, Gave("none", None))

\* __init__ of every object
InitObjects ==
    /\ parent = [o \in Objects |-> None]
    /\ \E w \in WorkingUnits : units = [o \in Objects |-> w]
    /\ los = [o \in Objects |-> DefaultLos]
    /\ basis = [o \in Objects |-> Identity]
    /\ objcall = NoObjCall

\* the objects as constructed under the configured working units
ObjectsAsBuilt ==
    /\ parent = [o \in Objects |-> None]
    /\ units = [o \in Objects |-> "working"]
    /\ los = [o \in Objects |-> DefaultLos]
    /\ basis = [o \in Objects |-> Identity]
    /\ objcall = NoObjCall

\* ptypeSTARS / ptypeDM (src/dextractor/ptype.py): the object "a" is a
\* particle-type object
VARIABLES
    fields_loaded,    \* its _fields_loaded: field name -> loaded array
    reads,            \* data field -> number of reads of self._data (history)
    fieldcall         \* the field access made by the last step, if it was one

loading == <<fields_loaded, reads, fieldcall>>

Star == "a"

\* self._fields = copy(self.fields[pt]): field name -> name in the data; the
\* four mandatory fields
StarFields ==
    [n \in {"coords", "vels", "masses", "IDs"} |-> <<"base_ptype", n>>]

DataFields == {StarFields[n] : n \in DOMAIN StarFields}

FieldCall(name, gave) == [op |-> "getattr", name |-> name, gave |-> gave]
NoFieldCall == [op |-> "none", name |-> None, gave |-> Gave("none", None)]

\* self._fields_loaded = {}
InitFields ==
    /\ fields_loaded = [n \in {} |-> None]
    /\ reads = [f \in DataFields |-> 0]
    /\ fieldcall = NoFieldCall

\* ptypeSTARS.refined_center_of_mass and the refine_center it calls
VARIABLES
    sample,           \* the object's particles: pos and mass of each
    rargs,            \* scaling, method, delta, alpha, m, nmin, mfrac
    rpc,              \* position in refined_center_of_mass / refine_center
    center,           \* refine_center: the current cm candidate
    support,          \* number of particles center was computed from (history)
    shrink,           \* the current scaling (shell cuts) or mfrac (mass cuts)
    streak,           \* consecutive iterations with a sub-delta displacement
    iterations,       \* iterations completed
    kept,             \* the active subset of the last cut
    centering_results,\* self.centering_results
    self_cm           \* self.cm

centering == <<sample, rargs, rpc, center, support, shrink, streak, iterations,
               kept, centering_results, self_cm>>

NoResults == [kind |-> "none", center |-> ZeroVec, radius_used |-> Zero,
              iterations |-> 0, converged |-> FALSE]

\* no particles, no call
NoCentering ==
    /\ sample = <<>>
    /\ rargs = [scaling |-> Zero, method |-> None, delta |-> Zero, alpha |-> Zero,
                m |-> 0, nmin |-> 0, mfrac |-> Zero]
    /\ rpc = "idle"
    /\ center = ZeroVec
    /\ support = 0
    /\ shrink = Zero
    /\ streak = 0
    /\ iterations = 0
    /\ kept = {}
    /\ centering_results = NoResults
    /\ self_cm = ZeroVec

\* the state of the other components (src/dextractor), which the unbinding
\* routines neither read nor write
outside == <<sharing, simulation, loading, centering>>
Untouched == InitShared /\ ObjectsAsBuilt /\ InitFields /\ NoCentering

vars == <<unbinding, outside>>

Init ==
    /\ routine \in {"BH", "APROX"}
    /\ \E ens \in Ensembles :
          /\ pos = Field(ens, "pos")
          /\ vel = Field(ens, "vel")
          /\ mass = Field(ens, "mass")
          /\ phi = Field(ens, "phi")
    /\ cm_arg \in {c \in CmArgs : c # None => RationalFrom(pos, c)}
    /\ vcm_arg \in VcmArgs
    /\ refine \in BOOLEAN
    /\ delta \in DeltaVals
    /\ pc = "call"
    /\ i = 0
    /\ cm = Unset /\ vcm = Unset
    /\ pot = Unset /\ kin = Unset /\ E = Unset
    /\ N = Unset /\ most_bound_mask = Unset
    /\ new_cm = Unset /\ new_vcm = Unset
    /\ result = Running
    /\ evals = 0
    /\ calls = 1
    /\ first = NoCall
    /\ Untouched

AllParticles == Indices(mass)

\* cm = np.average(pos, axis=0, weights=mass) if cm is None else cm
InitialCm == IF cm_arg = None THEN Average(pos, mass, AllParticles) ELSE cm_arg

\* (mutant: a supplied vcm is ignored)
InitialVcmIgnoresArg == Average(vel, mass, AllParticles)

\* vcm = np.average(vel, axis=0, weights=mass) if vcm is None else vcm
InitialVcm == IF vcm_arg = None THEN Average(vel, mass, AllParticles) ELSE vcm_arg

\* (mutant: the loop runs once more than range(100))
LoopRunsOnceMore == i < MaxIter + 1

\* for i in range(100): there is a pass still to run
LoopRuns == i < MaxIter

\* bound_particlesBH up to the loop: the candidates, and pot = Potential(...)
EnterBH ==
    /\ pc = "call" /\ routine = "BH"
    /\ cm' = InitialCm
    /\ vcm' = InitialVcm
    /\ pot' = phi
    /\ pc' = "loop"
    /\ UNCHANGED <<inputs, i, kin, E, N, most_bound_mask, new_cm, new_vcm, result, evals, earlier, outside>>

\* bound_particlesAPROX up to the loop
EnterAPROX ==
    /\ pc = "call" /\ routine = "APROX"
    /\ cm' = InitialCm
    /\ vcm' = InitialVcm
    /\ pc' = "loop"
    /\ UNCHANGED <<inputs, i, pot, kin, E, N, most_bound_mask, new_cm, new_vcm, result, evals, earlier, outside>>

\* one energy evaluation of bound_particlesBH
EnergyBH ==
    /\ pc = "loop" /\ routine = "BH" /\ LoopRuns
    /\ kin' = Kinetic(mass, vel, vcm)
    /\ pot' = PotentialBH(mass, pot)
    /\ E' = TotalEnergy(kin', pot')
    /\ evals' = evals + 1
    /\ pc' = "core"
    /\ UNCHANGED <<inputs, i, cm, vcm, N, most_bound_mask, new_cm, new_vcm, result, earlier, outside>>

\* one energy evaluation of bound_particlesAPROX
EnergyAPROX ==
    /\ pc = "loop" /\ routine = "APROX" /\ LoopRuns
    /\ kin' = Kinetic(mass, vel, vcm)
    /\ pot' = PotentialAPROX(mass, pos, cm)
    /\ E' = TotalEnergy(kin', pot')
    /\ evals' = evals + 1
    /\ pc' = "core"
    /\ UNCHANGED <<inputs, i, cm, vcm, N, most_bound_mask, new_cm, new_vcm, result, earlier, outside>>

\* the most-bound core and its averages; np.average raises on an empty core
Recenter ==
    /\ pc = "core"
    /\ N' = CoreSize(Cardinality(BoundMask(E)))
    /\ most_bound_mask' \in {M \in MostBoundMasks(E, N') : Lowest(M, pos, vel, mass)}
    /\ LET avg_pos == Average(pos, mass, most_bound_mask')
           avg_vel == Average(vel, mass, most_bound_mask')
       IN  IF avg_pos = ZeroDivisionError
           THEN /\ result' = Raised("ZeroDivisionError")
                /\ pc' = "done"
                /\ UNCHANGED <<new_cm, new_vcm>>
           ELSE /\ new_cm' = avg_pos
                /\ new_vcm' = avg_vel
                /\ pc' = "test"
                /\ UNCHANGED result
    /\ UNCHANGED <<inputs, i, cm, vcm, pot, kin, E, evals, earlier, outside>>

delta_cm == RelativeBelow(new_cm, cm, delta)
delta_vcm == RelativeBelow(new_vcm, vcm, delta)

\* (mutant: one of the two tests is enough)
ReturnsOnEither == ~refine \/ (delta_cm \/ delta_vcm)

\* if not refine or (delta_cm and delta_vcm)
Returns == ~refine \/ (delta_cm /\ delta_vcm)

\* (mutant: the new candidate is written into the array the caller passed)
WrittenInPlace(arg, new) == IF arg = None THEN None ELSE <<new[1], new[2], new[3]>>

\* cm, vcm = copy(new_cm), copy(new_vcm) binds the local names to new arrays:
\* the arrays the caller passed keep their values
Rebound(arg, new) == arg

\* the convergence test: return, or replace the candidates and loop
Converge ==
    /\ pc = "test"
    /\ IF Returns
       THEN /\ result' = Returned(E, kin, pot)
            /\ pc' = "done"
            /\ UNCHANGED <<i, cm, vcm, cm_arg, vcm_arg>>
       ELSE /\ cm' = new_cm
            /\ vcm' = new_vcm
            /\ cm_arg' = Rebound(cm_arg, new_cm)
            /\ vcm_arg' = Rebound(vcm_arg, new_vcm)
            /\ i' = i + 1
            /\ pc' = "loop"
            /\ UNCHANGED result
    /\ UNCHANGED <<routine, pos, vel, mass, phi, refine, delta>>
    /\ UNCHANGED <<pot, kin, E, N, most_bound_mask, new_cm, new_vcm, evals, earlier, outside>>

\* range(100) is exhausted: the function body ends, the call gives None
Exhaust ==
    /\ pc = "loop" /\ ~LoopRuns
    /\ result' = ReturnedNone
    /\ pc' = "done"
    /\ UNCHANGED <<inputs, locals, evals, earlier, outside>>

Next == EnterBH \/ EnterAPROX \/ EnergyBH \/ EnergyAPROX \/ Recenter \/ Converge \/ Exhaust

Spec == Init /\ [][Next]_vars

\* a second call of the same routine after the first has ended, with the same
\* arrays and arguments except possibly cm: every local starts afresh, nothing
\* of the first call is kept by the routine
CallAgain ==
    /\ pc = "done" /\ calls = 1
    /\ first' = Outcome(cm_arg, result)
    /\ calls' = 2
    /\ cm_arg' \in {c \in CmArgs : c # None => RationalFrom(pos, c)}
    /\ pc' = "call"
    /\ i' = 0
    /\ cm' = Unset /\ vcm' = Unset
    /\ pot' = Unset /\ kin' = Unset /\ E' = Unset
    /\ N' = Unset /\ most_bound_mask' = Unset
    /\ new_cm' = Unset /\ new_vcm' = Unset
    /\ result' = Running
    /\ evals' = 0
    /\ UNCHANGED <<routine, pos, vel, mass, phi, vcm_arg, refine, delta, outside>>

NextTwice == Next \/ CallAgain

\* the pairs of calls are explored for the ensembles of up to MaxTwice particles
MaxTwice == 8
InitTwice == Init /\ Len(mass) <= MaxTwice

SpecTwice == InitTwice /\ [][NextTwice]_vars

\* no unbinding routine is running
NotCalled ==
    /\ routine = None
    /\ pos = <<>> /\ vel = <<>> /\ mass = <<>> /\ phi = <<>>
    /\ cm_arg = None /\ vcm_arg = None
    /\ refine = FALSE
    /\ delta = Zero
    /\ pc = "idle"
    /\ i = 0
    /\ cm = Unset /\ vcm = Unset
    /\ pot = Unset /\ kin = Unset /\ E = Unset
    /\ N = Unset /\ most_bound_mask = Unset
    /\ new_cm = Unset /\ new_vcm = Unset
    /\ result = Running
    /\ evals = 0
    /\ calls = 1
    /\ first = NoCall

----------------------------------------------------------------------------
(* BaseParticleType: the shared-attribute class methods.                   *)

PtArgs == {"darkmatter", "stars", "gas"}
KeyArgs == {"rvir", "ML"}
ValueArgs == {"v1", "v2"}
\* the keyword arguments of a set_shared_attrs call
KwargsArgs == UNION {[D -> ValueArgs] : D \in SUBSET KeyArgs}

\* d[k] = v of a Python dict
Assign(d, k, v) == [x \in DOMAIN d \cup {k} |-> IF x = k THEN v ELSE d[x]]

\* if pt not in cls.shared_attrs
UnknownType(pt) == pt \notin DOMAIN shared_attrs

\* set_shared_attrs: the loop over kwargs is indented under the raise of the
\* unknown-type branch and never runs; with a known type the body ends
SetSharedAttrs(pt, kwargs) ==
    /\ classcall' = ClassCall("set_shared_attrs", pt, None, None, kwargs,
                              IF UnknownType(pt) THEN Gave("raise", "ValueError")
                                                 ELSE Gave("return", None))
    /\ UNCHANGED shared_attrs

\* get_shared_attr: the return is indented under the raise and never runs
GetSharedAttr(pt, key) ==
    /\ classcall' = ClassCall("get_shared_attr", pt, key, None, NoKwargs,
                              IF UnknownType(pt) THEN Gave("raise", "ValueError")
                                                 ELSE Gave("return", None))
    /\ UNCHANGED shared_attrs

\* (mutant: the key is not checked)
UpdatableAnyKey(pt, key) == pt \in DOMAIN shared_attrs

\* if pt in cls.shared_attrs and key in cls.shared_attrs[pt]
Updatable(pt, key) == pt \in DOMAIN shared_attrs /\ key \in DOMAIN shared_attrs[pt]

UpdateSharedAttr(pt, key, value) ==
    IF Updatable(pt, key)
    THEN /\ shared_attrs' = Assign(shared_attrs, pt, Assign(shared_attrs[pt], key, value))
         /\ classcall' = ClassCall("update_shared_attr", pt, key, value, NoKwargs, Gave("return", None))
    ELSE /\ classcall' = ClassCall("update_shared_attr", pt, key, value, NoKwargs, Gave("raise", "ValueError"))
         /\ UNCHANGED shared_attrs

SetShared ==
    /\ \E pt \in PtArgs, kwargs \in KwargsArgs : SetSharedAttrs(pt, kwargs)
    /\ UNCHANGED <<unbinding, simulation, loading, centering>>
GetShared ==
    /\ \E pt \in PtArgs, key \in KeyArgs : GetSharedAttr(pt, key)
    /\ UNCHANGED <<unbinding, simulation, loading, centering>>
UpdateShared ==
    /\ \E pt \in PtArgs, key \in KeyArgs, value \in ValueArgs : UpdateSharedAttr(pt, key, value)
    /\ UNCHANGED <<unbinding, simulation, loading, centering>>

NextShared == SetShared \/ GetShared \/ UpdateShared

StartShared == NotCalled /\ InitShared /\ ObjectsAsBuilt /\ InitFields /\ NoCentering

SpecShared == StartShared /\ [][NextShared]_vars

----------------------------------------------------------------------------
(* BaseSimulationObject: parents, units and the line of sight.             *)

UnitsArgs == {"u1"}
LosArgs == {<<0, 1, 0>>}

\* set_parent(parent)
SetParent(self, p) ==
    /\ parent' = [parent EXCEPT ![self] = p]
    /\ IF p # None
       THEN /\ units' = IF units[self] = None
                        THEN [units EXCEPT ![self] = units[p]]
                        ELSE units
            /\ UNCHANGED basis      \* self.basis is never None
       ELSE UNCHANGED <<units, basis>>
    /\ objcall' = ObjCall("set_parent", self, p, None, NoLos, Gave("return", None))
    /\ UNCHANGED los

\* the objects a call on self reaches through `if self._parent:
\* self._parent._set_...(...)`: self, its parent, the parent's parent, ...
RECURSIVE Reached(_, _)
Reached(self, seen) ==
    IF self \in seen THEN seen
    ELSE IF parent[self] = None THEN seen \cup {self}
    ELSE Reached(parent[self], seen \cup {self})

\* the chain of parents comes back on itself: the recursion never ends and
\* Python raises RecursionError
Endless(self) == \A o \in Reached(self, {}) : parent[o] # None

Ended(self) == IF Endless(self) THEN Gave("raise", "RecursionError") ELSE Gave("return", None)

\* _set_units(units)
SetUnits(self, u) ==
    /\ units' = [o \in Objects |-> IF o \in Reached(self, {}) THEN u ELSE units[o]]
    /\ objcall' = ObjCall("_set_units", self, None, u, NoLos, Ended(self))
    /\ UNCHANGED <<parent, los, basis>>

\* _set_los(los)
SetLos(self, l) ==
    /\ los' = [o \in Objects |-> IF o \in Reached(self, {}) THEN l ELSE los[o]]
    /\ basis' = [o \in Objects |-> IF o \in Reached(self, {}) THEN GramSchmidt(l) ELSE basis[o]]
    /\ objcall' = ObjCall("_set_los", self, None, None, l, Ended(self))
    /\ UNCHANGED <<parent, units>>

CallSetParent ==
    /\ \E self \in Objects, p \in Objects \cup {None} : SetParent(self, p)
    /\ UNCHANGED <<unbinding, sharing, loading, centering>>
CallSetUnits ==
    /\ \E self \in Objects, u \in UnitsArgs : SetUnits(self, u)
    /\ UNCHANGED <<unbinding, sharing, loading, centering>>
CallSetLos ==
    /\ \E self \in Objects, l \in LosArgs : SetLos(self, l)
    /\ UNCHANGED <<unbinding, sharing, loading, centering>>

NextObjects == CallSetParent \/ CallSetUnits \/ CallSetLos

StartObjects == NotCalled /\ InitShared /\ InitObjects /\ InitFields /\ NoCentering

SpecObjects == StartObjects /\ [][NextObjects]_vars

----------------------------------------------------------------------------
(* ptypeSTARS / ptypeDM: __getattr__, the dynamical field loader.          *)

\* the names looked up: loadable fields, with a unit in funits and without,
\* and a name that is not a field
NameArgs == {"coords", "masses", "IDs", "ages"}

\* reads of the data made by one object are counted up to MaxReads
MaxReads == 2

\* funits: the fields that are given in the object's units
InFunits(name) == name \in {"coords", "hsml", "masses", "vels"}

\* an array of the data, and the same array expressed in a unit
Native(f) == [data |-> f, unit |-> "native"]
InUnits(v, u) == [v EXCEPT !.unit = u]

\* self._data[field].in_units(funits[field_name]) if field_name in funits
\* else self._data[field]
Loaded(name, u) ==
    IF InFunits(name) THEN InUnits(Native(StarFields[name]), u)
    ELSE Native(StarFields[name])

\* self._fields_loaded[field_name].in_units(funits[field_name]) if field_name
\* in funits else self._fields_loaded[field_name]
Served(name, u) ==
    IF InFunits(name) THEN InUnits(fields_loaded[name], u)
    ELSE fields_loaded[name]

\* (mutant: the loaded array is returned without being kept)
NotKept(name, v) == fields_loaded

\* self._fields_loaded[field_name] = ...
Kept(name, v) == Assign(fields_loaded, name, v)

\* __getattr__(field_name). For a name that is not in _fields the
\* AttributeError is built but not raised, and self._fields[field_name]
\* raises KeyError
GetAttr(name) ==
    IF name \in DOMAIN fields_loaded
    THEN /\ fieldcall' = FieldCall(name, Gave("return", Served(name, units[Star])))
         /\ UNCHANGED <<fields_loaded, reads>>
    ELSE IF name \notin DOMAIN StarFields
    THEN /\ fieldcall' = FieldCall(name, Gave("raise", "KeyError"))
         /\ UNCHANGED <<fields_loaded, reads>>
    ELSE /\ reads[StarFields[name]] < MaxReads
         /\ reads' = [reads EXCEPT ![StarFields[name]] = @ + 1]
         /\ fields_loaded' = Kept(name, Loaded(name, units[Star]))
         /\ fieldcall' = FieldCall(name, Gave("return", Loaded(name, units[Star])))

Access ==
    /\ \E name \in NameArgs : GetAttr(name)
    /\ UNCHANGED <<unbinding, sharing, simulation, centering>>

\* the object's units are changed between accesses
Rescale ==
    /\ \E u \in UnitsArgs \cup {"working"} : SetUnits(Star, u)
    /\ fieldcall' = NoFieldCall
    /\ UNCHANGED <<unbinding, sharing, fields_loaded, reads, centering>>

NextFields == Access \/ Rescale

StartFields == NotCalled /\ InitShared /\ ObjectsAsBuilt /\ InitFields /\ NoCentering

SpecFields == StartFields /\ [][NextFields]_vars

----------------------------------------------------------------------------
(* Properties.                                                             *)

RAbs(a) == <<Abs(a[1]), a[2]>>

\* a pass has chosen its most-bound core (and np.average has answered)
CoreChosen == pc = "test" \/ (pc = "done" /\ result.kind = "raise")

\* the call has returned the tuple (E, kin, pot)
GaveRecord == pc = "done" /\ result.kind = "return"

\* C1: whenever the most-bound-core count N of a pass is 0, the routine ends
\* normally and returns that pass's (E, kin, pot) instead of raising.
C1_EmptyCoreReturns ==
    (pc = "done" /\ N = 0) => result = Returned(E, kin, pot)

Rank ==
    CASE pc = "call" -> 3 * MaxIter + 2
      [] pc = "loop" -> 3 * (MaxIter - i) + 1
      [] pc = "core" -> 3 * (MaxIter - i)
      [] pc = "test" -> 3 * (MaxIter - i) - 1
      [] pc = "done" -> 0

\* C3: a call makes at most 100 passes (energy evaluation + re-centring),
\* the pass counter never decreases and advances by one with every pass that
\* does not return, and no execution goes on for ever: every step brings the
\* call strictly closer to its end.
C3_AtMost100Passes ==
    [][ /\ evals' <= 100
        /\ i' \in {i, i + 1}
        /\ (pc = "test" /\ pc' = "loop") => i' = i + 1
        /\ evals' = (IF pc = "loop" /\ pc' = "core" THEN evals + 1 ELSE evals)
        /\ Rank' < Rank
        /\ Rank' >= 0 ]_vars

C3_Witness == pc = "done" /\ evals = 100 /\ i = 100

\* the particles whose kinetic energy exceeds the magnitude of their potential
Hot == {k \in AllParticles : RLt(RAbs(pot[k]), kin[k])}

CrossFixture ==
    /\ pos = CrossPos
    /\ \A k \in AllParticles : mass[k] = mass[1]
    /\ ~refine

\* C4: on the four-particle cross with exactly one particle whose kinetic
\* energy exceeds the magnitude of its potential, each routine (refine=false)
\* returns a record in which that particle alone has E >= 0.
C4_CrossOneUnbound ==
    (pc = "done" /\ CrossFixture /\ Cardinality(Hot) = 1) =>
        /\ result.kind = "return"
        /\ \A k \in AllParticles : (k \in Hot) <=> ~RLt(result.E[k], Zero)

\* C5: with refine=false a call makes exactly one energy evaluation, with the
\* initial cm/vcm, and returns its (E, kin, pot) whatever the re-centring
\* step does.
C5_SinglePassReturns ==
    (pc = "done" /\ ~refine) =>
        /\ evals = 1
        /\ result = Returned(E, kin, pot)
        /\ \A k \in AllParticles :
              kin[k] = RMul(RMul(Half, mass[k]), SqDist(vel[k], InitialVcm))

\* C6: in the record a call returns, kin_i = 0.5 * mass_i * |vel_i - vcm|^2
\* with vcm the candidate the returning pass used, E_i = kin_i + pot_i, and
\* the bound particles (those counted for the core) are those with E_i < 0.
C6_ReturnedEnergies ==
    GaveRecord =>
        /\ \A k \in AllParticles :
              /\ result.kin[k] = RMul(RMul(<<1, 2>>, mass[k]), SqDist(vel[k], vcm))
              /\ result.E[k] = RAdd(result.kin[k], result.pot[k])
        /\ BoundMask(E) = {k \in AllParticles : RLt(result.E[k], Zero)}

C6_Witness ==
    /\ GaveRecord /\ refine
    /\ new_vcm # vcm
    /\ vcm # ZeroVec
    /\ \E k \in AllParticles : ~RLt(result.E[k], Zero)
    /\ \E k \in AllParticles : RLt(result.E[k], Zero)

\* C7: in bound_particlesAPROX a particle that sits exactly at cm is
\* special-cased, so no infinite or undefined potential or energy enters the
\* classification or the core ordering, in any pass.
C7_FiniteEnergies ==
    (routine = "APROX" /\ pc \in {"core", "test", "done"}) =>
        \A k \in AllParticles : IsFinite(pot[k]) /\ IsFinite(E[k])

\* round(0.1 * b), ties to even, and the cap of 32
IsCoreCount(n, b) ==
    \/ b >= 320 /\ n = 32
    \/ b < 320 /\ Abs(b - 10 * n) < 5
    \/ b < 320 /\ Abs(b - 10 * n) = 5 /\ n % 2 = 0

\* v is the mass-weighted average of the rows of a over the particles of S
IsWeightedMean(v, a, S) ==
    \A c \in 1 .. 3 :
        RMul(v[c], SumOver(mass, S)) = SumOver([k \in AllParticles |-> RMul(mass[k], a[k][c])], S)

WithinDelta(new, old) ==
    /\ SqDist(old, ZeroVec) # Zero
    /\ RLt(SqDist(new, old), RMul(RMul(delta, delta), SqDist(old, ZeroVec)))

\* C9: with refine=true a pass returns exactly when both relative
\* displacements, of cm and of vcm, are below delta (so the call returns at
\* the first such pass); otherwise, also when only one of the two is, both
\* candidates are replaced by the core averages and the loop goes on.
C9_ReturnsAtFirstConvergedPass ==
    [][ (pc = "test" /\ refine) =>
          IF WithinDelta(new_cm, cm) /\ WithinDelta(new_vcm, vcm)
          THEN pc' = "done" /\ result' = Returned(E, kin, pot)
          ELSE /\ pc' = "loop" /\ result' = Running
               /\ cm' = new_cm /\ vcm' = new_vcm /\ i' = i + 1 ]_vars

C9_Witness == GaveRecord /\ refine /\ i >= 2

----------------------------------------------------------------------------
(* ptypeSTARS.refined_center_of_mass (ptypeDM has the same method). The     *)
(* refine_center and center_of_mass it calls (module class_methods) are    *)
(* not among the sources; they follow section 4.1 of the specification.    *)

\* the samples: up to MaxSample particles at distinct places on the x axis
MaxSample == 3
PlaceArgs == {1, 2, 5, 7}
WeightArgs == {1, 2}

RECURSIVE Lined(_, _)
\* the particles at the places of S, in increasing order, with weights w
Lined(S, w) ==
    IF S = {} THEN <<>>
    ELSE LET x == CHOOSE y \in S : \A z \in S : z <= y
         IN  Lined(S \ {x}, w) \o <<[pos |-> Vec(x, 0, 0), mass |-> R(w[x])]>>

Samples ==
    UNION {{Lined(S, w) : w \in [S -> WeightArgs]} :
              S \in {T \in SUBSET PlaceArgs : T # {} /\ Cardinality(T) <= MaxSample}}

ShellMethods == {"simple", "iterative"}
MassMethods == {"half-mass", "iterative-half-mass"}
DecayMethods == {"iterative", "iterative-half-mass"}

\* the arguments of a call; scaling is left at its default (0.5) for the
\* methods that do not read it
RefineArgs ==
    {a \in [scaling : {Half, R(1)}, method : ShellMethods \cup MassMethods,
            delta : {Zero, Half}, alpha : {Half}, m : {1, 2}, nmin : {2, 3},
            mfrac : {Half}] :
        a.method \in MassMethods => a.scaling = Half}

\* the iteration bound of the refinement loops
MaxRefine == 100

\* coarse_center: the mass-weighted average position over all particles
CoarseCenter(sm) == Average(Field(sm, "pos"), Field(sm, "mass"), Indices(sm))

\* __init__ has called _default_center_of_mass; refined_center_of_mass is
\* about to be called
InitCentering ==
    /\ sample \in Samples
    /\ rargs \in RefineArgs
    /\ rpc = "call"
    /\ center = ZeroVec
    /\ support = 0
    /\ shrink = Zero
    /\ streak = 0
    /\ iterations = 0
    /\ kept = {}
    /\ centering_results = NoResults
    /\ self_cm = CoarseCenter(sample)

Results(c, n, conv) ==
    [kind |-> "return", center |-> c, radius_used |-> Zero,
     iterations |-> n, converged |-> conv]
DegenerateInputError ==
    [kind |-> "raise", center |-> ZeroVec, radius_used |-> Zero,
     iterations |-> 0, converged |-> FALSE]

\* squared distance of particle k from c
Dist2(k, c) == SqDist(sample[k].pos, c)

\* rmax squared: the largest squared distance from c
RMax2(c) ==
    LET D == {Dist2(k, c) : k \in Indices(sample)}
    IN  CHOOSE d \in D : \A e \in D : ~RLt(d, e)

\* the shell cut: the particles with distance < s * rmax
ShellCut(c, s) ==
    {k \in Indices(sample) : RLt(Dist2(k, c), RMul(RMul(s, s), RMax2(c)))}

\* k comes before j when the particles are ordered by distance from c, ties
\* in input order
Nearer(k, j, c) ==
    \/ RLt(Dist2(k, c), Dist2(j, c))
    \/ (Dist2(k, c) = Dist2(j, c) /\ k < j)

\* the n particles nearest to c
Nearest(n, c) ==
    {k \in Indices(sample) :
        Cardinality({j \in Indices(sample) : Nearer(j, k, c)}) < n}

\* the mass cut: the smallest-radius subset whose cumulative mass reaches f
\* of the total mass
MassCut(c, f) ==
    LET w == Field(sample, "mass")
        target == RMul(f, SumOver(w, Indices(sample)))
        enough == {a \in Indices(sample) : ~RLt(SumOver(w, Nearest(a, c)), target)}
    IN  Nearest(CHOOSE a \in enough : \A b \in enough : a <= b, c)

\* the active subset around c under the current scaling or mass fraction
Cut(c) ==
    IF rargs.method \in ShellMethods THEN ShellCut(c, shrink) ELSE MassCut(c, shrink)

\* (mutant: the subset may be one particle short of nmin)
OneShort(S) == Cardinality(S) + 1 < rargs.nmin

\* the particle count of the active subset is below nmin
Underpopulated(S) == Cardinality(S) < rargs.nmin

\* the displacement between successive candidates, divided by the previous
\* candidate's norm (absolute in the first iteration), is below delta
SubDelta(new, old) ==
    IF iterations = 0
    THEN RLt(SqDist(new, old), RMul(rargs.delta, rargs.delta))
    ELSE RelativeBelow(new, old, rargs.delta)

\* self.centering_results = refine_center(...); self.cm =
\* self.centering_results['center']; an exception leaves both as they were
Finish(res) ==
    /\ rpc' = "done"
    /\ IF res.kind = "return"
       THEN /\ centering_results' = res
            /\ self_cm' = res.center
       ELSE /\ centering_results' = DegenerateInputError
            /\ UNCHANGED self_cm

\* refined_center_of_mass calls refine_center, whose candidate starts as the
\* coarse center
EnterRefine ==
    /\ rpc = "call"
    /\ center' = CoarseCenter(sample)
    /\ support' = Len(sample)
    /\ shrink' = IF rargs.method \in ShellMethods THEN rargs.scaling ELSE rargs.mfrac
    /\ streak' = 0
    /\ iterations' = 0
    /\ kept' = Indices(sample)
    /\ rpc' = IF rargs.method = "simple" THEN "simple" ELSE "loop"
    /\ UNCHANGED <<sample, rargs, centering_results, self_cm>>
    /\ UNCHANGED <<unbinding, sharing, simulation, loading>>

\* simple: one shell cut and the weighted average of what is kept
SimpleCut ==
    /\ rpc = "simple"
    /\ kept' = ShellCut(center, shrink)
    /\ IF kept' = {}
       THEN /\ Finish(DegenerateInputError)
            /\ UNCHANGED <<center, support, iterations>>
       ELSE /\ center' = Average(Field(sample, "pos"), Field(sample, "mass"), kept')
            /\ support' = Cardinality(kept')
            /\ iterations' = 1
            /\ Finish(Results(center', 1, TRUE))
    /\ UNCHANGED <<sample, rargs, shrink, streak>>
    /\ UNCHANGED <<unbinding, sharing, simulation, loading>>

\* one iteration of a loop-based method
RefineStep ==
    /\ rpc = "loop" /\ iterations < MaxRefine
    /\ kept' = Cut(center)
    /\ IF Underpopulated(kept')
       THEN /\ Finish(Results(center, iterations, FALSE))
            /\ UNCHANGED <<center, support, shrink, streak, iterations>>
       ELSE LET new == Average(Field(sample, "pos"), Field(sample, "mass"), kept')
                run == IF SubDelta(new, center) THEN streak + 1 ELSE 0
            IN  /\ center' = new
                /\ support' = Cardinality(kept')
                /\ streak' = run
                /\ iterations' = iterations + 1
                /\ IF run >= rargs.m
                   THEN /\ Finish(Results(new, iterations + 1, TRUE))
                        /\ UNCHANGED shrink
                   ELSE /\ shrink' = IF rargs.method \in DecayMethods
                                     THEN RMul(rargs.alpha, shrink) ELSE shrink
                        /\ UNCHANGED <<rpc, centering_results, self_cm>>
    /\ UNCHANGED <<sample, rargs>>
    /\ UNCHANGED <<unbinding, sharing, simulation, loading>>

\* the iteration bound is reached: the final candidate, not converged
RefineCapped ==
    /\ rpc = "loop" /\ iterations >= MaxRefine
    /\ Finish(Results(center, iterations, FALSE))
    /\ UNCHANGED <<sample, rargs, center, support, shrink, streak, iterations, kept>>
    /\ UNCHANGED <<unbinding, sharing, simulation, loading>>

NextCentering == EnterRefine \/ SimpleCut \/ RefineStep \/ RefineCapped

StartCentering == NotCalled /\ InitShared /\ ObjectsAsBuilt /\ InitFields /\ InitCentering

SpecCentering == StartCentering /\ [][NextCentering]_vars

----------------------------------------------------------------------------
(* Properties, continued.                                                  *)

\* equality of two cm (or vcm) arguments, either of which may be None
SameArg(a, b) == IF b = None THEN a = None ELSE IF a = None THEN FALSE ELSE a = b

SecondCallDone == pc = "done" /\ calls = 2

\* C11: in bound_particlesBH the cm argument does nothing: two calls that
\* differ only in the supplied cm return the same (E, kin, pot), whether
\* refine is false or true.
C11_CmIsPlaceholder ==
    (SecondCallDone /\ routine = "BH") => result = first.result

Stored(pt, key) ==
    IF key \in DOMAIN shared_attrs[pt] THEN shared_attrs[pt][key] ELSE None

\* the table with the entries of kwargs written under pt, all else as it was
WithKwargs(pt, kwargs) ==
    [p \in DOMAIN shared_attrs |->
        [k \in DOMAIN shared_attrs[p] |->
            IF p = pt /\ k \in DOMAIN kwargs THEN kwargs[k] ELSE shared_attrs[p][k]]]

RaisedValueError == classcall'.gave = Gave("raise", "ValueError") /\ shared_attrs' = shared_attrs

\* C13: set_shared_attrs(pt, **kwargs) with a known pt and keys all valid for
\* pt sets shared_attrs[pt][key] for every key of kwargs and leaves every
\* other entry unchanged; with a known pt and a key not valid for pt it
\* raises ValueError.
C13_SetSharedAttrs ==
    [][(classcall'.op = "set_shared_attrs" /\ classcall'.pt \in DOMAIN shared_attrs) =>
          IF DOMAIN classcall'.kwargs \subseteq DOMAIN shared_attrs[classcall'.pt]
          THEN shared_attrs' = WithKwargs(classcall'.pt, classcall'.kwargs)
          ELSE classcall'.gave = Gave("raise", "ValueError")]_vars

\* C14: get_shared_attr(pt, key) for a known pt returns the value currently
\* stored in shared_attrs[pt][key], the one most recently written for
\* (pt, key), and leaves the table unchanged.
C14_GetReturnsStored ==
    [][(classcall'.op = "get_shared_attr" /\ classcall'.pt \in DOMAIN shared_attrs) =>
          /\ classcall'.gave = Gave("return", Stored(classcall'.pt, classcall'.key))
          /\ shared_attrs' = shared_attrs]_vars

\* C15: update_shared_attr(pt, key, value) changes exactly the entry
\* (pt, key) when pt is known and key valid for it, and otherwise raises
\* ValueError with the table unchanged; set_shared_attrs and get_shared_attr
\* with an unknown pt raise ValueError and leave the table unchanged.
C15_UpdateOrValueError ==
    [][/\ classcall'.op = "update_shared_attr" =>
            IF /\ classcall'.pt \in DOMAIN shared_attrs
               /\ classcall'.key \in DOMAIN shared_attrs[classcall'.pt]
            THEN /\ classcall'.gave = Gave("return", None)
                 /\ DOMAIN shared_attrs' = DOMAIN shared_attrs
                 /\ \A p \in DOMAIN shared_attrs :
                        /\ DOMAIN shared_attrs'[p] = DOMAIN shared_attrs[p]
                        /\ \A k \in DOMAIN shared_attrs[p] :
                               shared_attrs'[p][k] =
                                   IF p = classcall'.pt /\ k = classcall'.key
                                   THEN classcall'.value
                                   ELSE shared_attrs[p][k]
            ELSE RaisedValueError
       /\ (/\ classcall'.op \in {"set_shared_attrs", "get_shared_attr"}
           /\ classcall'.pt \notin DOMAIN shared_attrs) => RaisedValueError]_vars

\* an update has just written one entry while another entry holds a value
C15_Witness ==
    /\ classcall.op = "update_shared_attr"
    /\ classcall.gave.kind = "return"
    /\ shared_attrs[classcall.pt][classcall.key] = classcall.value
    /\ \E p \in DOMAIN shared_attrs : \E k \in DOMAIN shared_attrs[p] :
           /\ <<p, k>> # <<classcall.pt, classcall.key>>
           /\ shared_attrs[p][k] \notin {None, classcall.value}

\* the objects whose parent was set to x
Children(x) == {c \in Objects : parent[c] = x}

\* C16: after x._set_units(u), x.units = u, and after x._set_los(l),
\* x.los = l and x.basis = gram_schmidt(l); the same holds for every child
\* of x, i.e. every object whose parent was set to x with set_parent.
C16_ReachesChildren ==
    [][/\ objcall'.op = "_set_units" =>
            \A o \in {objcall'.self} \cup Children(objcall'.self) :
                units'[o] = objcall'.units
       /\ objcall'.op = "_set_los" =>
            \A o \in {objcall'.self} \cup Children(objcall'.self) :
                /\ los'[o] = objcall'.los
                /\ basis'[o] = GramSchmidt(objcall'.los)]_vars

\* C17: after child.set_parent(p) with a non-empty parent p, the child's
\* _parent is p and child.units = p.units and child.basis = p.basis,
\* whatever the child held before the call.
C17_ParentPropagates ==
    [][(objcall'.op = "set_parent" /\ objcall'.parent # None) =>
          /\ parent'[objcall'.self] = objcall'.parent
          /\ units'[objcall'.self] = units'[objcall'.parent]
          /\ basis'[objcall'.self] = basis'[objcall'.parent]]_vars

\* C18: field access on a particle-type object is a cache populated on first
\* access: the first access of a name of _fields reads it from the data and
\* stores it in _fields_loaded under that name, every later access of that
\* name is served from _fields_loaded without reading the data again, and an
\* access never adds or changes the cache entry of another field.
C18_LoadedOnce ==
    [][(fieldcall'.op = "getattr" /\ fieldcall'.name \in DOMAIN StarFields) =>
          LET name == fieldcall'.name IN
          /\ IF name \notin DOMAIN fields_loaded
             THEN /\ reads' = [reads EXCEPT ![StarFields[name]] = @ + 1]
                  /\ name \in DOMAIN fields_loaded'
                  /\ fields_loaded'[name].data = StarFields[name]
                  /\ fieldcall'.gave = Gave("return", fields_loaded'[name])
             ELSE /\ reads' = reads
                  /\ fields_loaded'[name] = fields_loaded[name]
                  /\ fieldcall'.gave.kind = "return"
                  /\ fieldcall'.gave.val.data = fields_loaded[name].data
          /\ DOMAIN fields_loaded' = DOMAIN fields_loaded \cup {name}
          /\ \A other \in DOMAIN fields_loaded \ {name} :
                 fields_loaded'[other] = fields_loaded[other]
          /\ \A f \in DataFields : reads'[f] <= 1]_vars

\* a field loaded under one unit system has just been served from the cache
\* under another, with a second field in the cache
C18_Witness ==
    /\ fieldcall.op = "getattr" /\ fieldcall.name = "coords"
    /\ fieldcall.gave.kind = "return"
    /\ fieldcall.gave.val.unit # fields_loaded["coords"].unit
    /\ "IDs" \in DOMAIN fields_loaded
    /\ reads[StarFields["coords"]] = 1

\* a loop-based method has stopped on an active subset of fewer than nmin
\* particles
Halted ==
    /\ rpc = "done" /\ rargs.method # "simple"
    /\ Cardinality(kept) < rargs.nmin

C20_SimpleUnitScaling ==
    (rpc = "done" /\ rargs.method = "simple" /\ rargs.scaling = R(1)) =>
        /\ centering_results.kind = "return"
        /\ kept = Indices(sample)
        /\ centering_results.center = CoarseCenter(sample)

\* C21: accessing on a ptypeSTARS or ptypeDM object a name that is not in its
\* loadable fields (_fields) raises AttributeError; it does not read the
\* underlying data and leaves the field cache _fields_loaded unchanged.
C21_UnknownFieldRaises ==
    [][(fieldcall'.op = "getattr" /\ fieldcall'.name \notin DOMAIN StarFields) =>
          /\ fieldcall'.gave = Gave("raise", "AttributeError")
          /\ reads' = reads
          /\ fields_loaded' = fields_loaded]_vars

====
